---- MODULE Spec2Model ----
(***************************************************************************)
(* Kanban task board and agent hand-off of                                 *)
(* .dev/phases/multi-agent-research/claude-langgraph-implementation.py.    *)
(*                                                                         *)
(* The session (KanbanState) is a dictionary: a function from the keys it  *)
(* holds to their values.  Every tool is an operator from the injected     *)
(* state and its arguments to the state it leaves behind and the value it  *)
(* returns; the actions apply the tools to the session of the graph.       *)
(* Formatted strings are kept as the tuple of their pieces.                *)
(***************************************************************************)
EXTENDS Integers, Sequences, FiniteSets, TLC

VARIABLES
    state,        \* the KanbanState dictionary of the session
    node,         \* the graph node the driver is executing
    last,         \* the last tool call: its name, arguments and return value
    created_ids,  \* the identifiers create_task has returned so far
    active_roles  \* every value current_agent has had in the session

vars == <<state, node, last, created_ids, active_roles>>

\* ------------------------------------------------------------------ bounds
MaxTasks == 2      \* tasks on the initial board
MaxMsgs == 2       \* length of the message history

\* ---------------------------------------------------------- data model
TODO == "todo"
IN_PROGRESS == "in-progress"
DONE == "done"
TaskState == {TODO, IN_PROGRESS, DONE}

\* Python's None, as f-strings print it
None == "None"

\* Task(...) with the dataclass defaults: no assignee, dependencies []
Task(id, title, description, st, priority) ==
    [id |-> id, title |-> title, description |-> description, state |-> st,
     assigned_agent |-> None, priority |-> priority, dependencies |-> <<>>]

\* the nodes of multi_agent_graph
Nodes == {"orchestrator", "research_agent", "coding_agent", "qa_agent"}

\* a slip: the orchestrator is given transfer_to_orchestrator as well
HandoffTargets_self(agent) ==
    CASE agent = "research_agent" -> {"coding_agent", "qa_agent", "orchestrator"}
      [] agent = "coding_agent" -> {"research_agent", "qa_agent", "orchestrator"}
      [] agent = "qa_agent" -> {"research_agent", "coding_agent", "orchestrator"}
      [] agent = "orchestrator" -> {"research_agent", "coding_agent", "qa_agent",
                                    "orchestrator"}
      [] OTHER -> {}

\* the transfer_to_* tools in each agent's tool list, by target
HandoffTargets(agent) ==
    CASE agent = "research_agent" -> {"coding_agent", "qa_agent", "orchestrator"}
      [] agent = "coding_agent" -> {"research_agent", "qa_agent", "orchestrator"}
      [] agent = "qa_agent" -> {"research_agent", "coding_agent", "orchestrator"}
      [] agent = "orchestrator" -> {"research_agent", "coding_agent", "qa_agent"}
      [] OTHER -> {}

\* ---------------------------------------------------------- dictionaries
Has(s, k) == k \in DOMAIN s

\* s[k] = v on a dictionary, and {**s, k: v}
Put(s, k, v) == [x \in (DOMAIN s) \cup {k} |-> IF x = k THEN v ELSE s[x]]

KeyError(s, k) == [state |-> s, result |-> <<"KeyError", k>>, raised |-> TRUE]

Return(s, text) == [state |-> s, result |-> text, raised |-> FALSE]

\* a slip: after a loop that matched nothing, the loop variable (the last task)
\* is used
FirstMatch_leak(tasks, task_id) ==
    LET hits == {i \in 1..Len(tasks) : tasks[i].id = task_id}
    IN IF hits = {} THEN Len(tasks) ELSE CHOOSE i \in hits : \A j \in hits : i <= j

\* the index of the first task the loop "for task in tasks" matches, 0 if none
FirstMatch(tasks, task_id) ==
    LET hits == {i \in 1..Len(tasks) : tasks[i].id = task_id}
    IN IF hits = {} THEN 0 ELSE CHOOSE i \in hits : \A j \in hits : i <= j

\* ---------------------------------------------------------- hand-off
\* the acknowledgment record handoff_tool builds
ToolMessage(agent_name, tool_call_id) ==
    [role |-> "tool",
     content |-> <<"Successfully transferred to ", agent_name>>,
     name |-> <<"transfer_to_", agent_name>>,
     tool_call_id |-> tool_call_id]

\* a slip: the history is extended but current_agent is left as it was
handoff_tool_stale(agent_name, s, tool_call_id) ==
    [goto |-> agent_name,
     update |-> Put(s, "messages",
                    Append(s["messages"], ToolMessage(agent_name, tool_call_id))),
     graph |-> "PARENT"]

\* a slip: the history is replaced by the acknowledgment instead of extended
handoff_tool_reset(agent_name, s, tool_call_id) ==
    [goto |-> agent_name,
     update |-> Put(Put(s, "current_agent", agent_name), "messages",
                    <<ToolMessage(agent_name, tool_call_id)>>),
     graph |-> "PARENT"]

\* handoff_tool of create_handoff_tool(agent_name=agent_name): the Command
handoff_tool(agent_name, s, tool_call_id) ==
    [goto |-> agent_name,
     update |-> Put(Put(s, "current_agent", agent_name), "messages",
                    Append(s["messages"], ToolMessage(agent_name, tool_call_id))),
     graph |-> "PARENT"]

\* ---------------------------------------------------------- board tools
\* create_task: task_id is the value str(uuid.uuid4())[:8] draws
create_task(s, title, description, priority, task_id) ==
    LET new_task == Task(task_id, title, description, TODO, priority)
    IN IF ~Has(s, "tasks") THEN KeyError(s, "tasks")
       ELSE LET updated_tasks == Append(s["tasks"], new_task)
            IN \* updated_tasks is a local that is never stored
               Return(s, <<"Created task '", title, "' with ID ", task_id>>)

\* a slip: the TODO test is dropped, any matching task is (re)claimed
claim_task_any(s, task_id) ==
    IF ~Has(s, "tasks") THEN KeyError(s, "tasks")
    ELSE IF ~Has(s, "current_agent") THEN KeyError(s, "current_agent")
    ELSE LET tasks == s["tasks"]
             i == FirstMatch(tasks, task_id)
         IN IF i = 0 THEN Return(s, <<"Task with ID ", task_id, " not found">>)
            ELSE Return(Put(s, "tasks",
                            [tasks EXCEPT ![i].state = IN_PROGRESS,
                                          ![i].assigned_agent = s["current_agent"]]),
                        <<"Task '", tasks[i].title, "' claimed and moved to IN_PROGRESS">>)

\* a change of behaviour: a claim also moves one unit of board_stats
claim_task_counts(s, task_id) ==
    IF ~Has(s, "tasks") THEN KeyError(s, "tasks")
    ELSE IF ~Has(s, "current_agent") THEN KeyError(s, "current_agent")
    ELSE LET tasks == s["tasks"]
             current_agent == s["current_agent"]
             i == FirstMatch(tasks, task_id)
             claimed == Put(s, "tasks",
                            [tasks EXCEPT ![i].state = IN_PROGRESS,
                                          ![i].assigned_agent = current_agent])
         IN IF i = 0 THEN Return(s, <<"Task with ID ", task_id, " not found">>)
            ELSE IF tasks[i].state = TODO
            THEN Return(IF Has(s, "board_stats")
                        THEN Put(claimed, "board_stats",
                                 [s["board_stats"] EXCEPT !.todo = @ - 1,
                                                          !.in_progress = @ + 1])
                        ELSE claimed,
                        <<"Task '", tasks[i].title, "' claimed and moved to IN_PROGRESS">>)
            ELSE Return(s, <<"Task '", tasks[i].title, "' is already ", tasks[i].state>>)

\* a slip: the assignee is taken from the wrong variable
claim_task_wrongvar(s, task_id) ==
    IF ~Has(s, "tasks") THEN KeyError(s, "tasks")
    ELSE IF ~Has(s, "current_agent") THEN KeyError(s, "current_agent")
    ELSE LET tasks == s["tasks"]
             i == FirstMatch(tasks, task_id)
         IN IF i = 0 THEN Return(s, <<"Task with ID ", task_id, " not found">>)
            ELSE IF tasks[i].state = TODO
            THEN Return(Put(s, "tasks",
                            [tasks EXCEPT ![i].state = IN_PROGRESS,
                                          ![i].assigned_agent = task_id]),
                        <<"Task '", tasks[i].title, "' claimed and moved to IN_PROGRESS">>)
            ELSE Return(s, <<"Task '", tasks[i].title, "' is already ", tasks[i].state>>)

claim_task(s, task_id) ==
    IF ~Has(s, "tasks") THEN KeyError(s, "tasks")
    ELSE IF ~Has(s, "current_agent") THEN KeyError(s, "current_agent")
    ELSE LET tasks == s["tasks"]
             current_agent == s["current_agent"]
             i == FirstMatch(tasks, task_id)
         IN IF i = 0 THEN Return(s, <<"Task with ID ", task_id, " not found">>)
            ELSE IF tasks[i].state = TODO
            THEN Return(Put(s, "tasks",
                            [tasks EXCEPT ![i].state = IN_PROGRESS,
                                          ![i].assigned_agent = current_agent]),
                        <<"Task '", tasks[i].title, "' claimed and moved to IN_PROGRESS">>)
            ELSE Return(s, <<"Task '", tasks[i].title, "' is already ", tasks[i].state>>)

\* a slip: the assignee test is dropped, whoever asks completes the task
complete_task_any(s, task_id) ==
    IF ~Has(s, "tasks") THEN KeyError(s, "tasks")
    ELSE IF ~Has(s, "current_agent") THEN KeyError(s, "current_agent")
    ELSE LET tasks == s["tasks"]
             i == FirstMatch(tasks, task_id)
         IN IF i = 0 THEN Return(s, <<"Task with ID ", task_id, " not found">>)
            ELSE Return(Put(s, "tasks", [tasks EXCEPT ![i].state = DONE]),
                        <<"Task '", tasks[i].title, "' completed!">>)

\* a change of behaviour: a DONE task is reported as such instead of completed again
complete_task_guarded(s, task_id) ==
    IF ~Has(s, "tasks") THEN KeyError(s, "tasks")
    ELSE IF ~Has(s, "current_agent") THEN KeyError(s, "current_agent")
    ELSE LET tasks == s["tasks"]
             current_agent == s["current_agent"]
             i == FirstMatch(tasks, task_id)
         IN IF i = 0 THEN Return(s, <<"Task with ID ", task_id, " not found">>)
            ELSE IF tasks[i].assigned_agent = current_agent
            THEN IF tasks[i].state = DONE
                 THEN Return(s, <<"Task '", tasks[i].title, "' is already ", DONE>>)
                 ELSE Return(Put(s, "tasks", [tasks EXCEPT ![i].state = DONE]),
                             <<"Task '", tasks[i].title, "' completed!">>)
            ELSE Return(s, <<"Task '", tasks[i].title, "' is assigned to ",
                             tasks[i].assigned_agent, ", not ", current_agent>>)

complete_task(s, task_id) ==
    IF ~Has(s, "tasks") THEN KeyError(s, "tasks")
    ELSE IF ~Has(s, "current_agent") THEN KeyError(s, "current_agent")
    ELSE LET tasks == s["tasks"]
             current_agent == s["current_agent"]
             i == FirstMatch(tasks, task_id)
         IN IF i = 0 THEN Return(s, <<"Task with ID ", task_id, " not found">>)
            ELSE IF tasks[i].assigned_agent = current_agent
            THEN Return(Put(s, "tasks", [tasks EXCEPT ![i].state = DONE]),
                        <<"Task '", tasks[i].title, "' completed!">>)
            ELSE Return(s, <<"Task '", tasks[i].title, "' is assigned to ",
                             tasks[i].assigned_agent, ", not ", current_agent>>)

\* ---------------------------------------------------------- status text
\* [task for task in tasks if task.state == status_type], in board order
RECURSIVE Filtered(_, _)
Filtered(tasks, status_type) ==
    IF tasks = <<>> THEN <<>>
    ELSE IF Head(tasks).state = status_type
         THEN <<Head(tasks)>> \o Filtered(Tail(tasks), status_type)
         ELSE Filtered(Tail(tasks), status_type)

\* sum(1 for task in tasks if task.state == status_type)
Count(tasks, status_type) == Len(Filtered(tasks, status_type))

\* status_type.value.upper()
Upper(status_type) ==
    CASE status_type = TODO -> "TODO"
      [] status_type = IN_PROGRESS -> "IN-PROGRESS"
      [] status_type = DONE -> "DONE"

\* the truth value Python gives task.assigned_agent
Truthy(v) == v # None /\ v # ""

\* one "  - id: title (assigned to agent)" line
TaskLine(task) ==
    <<"  - ", task.id, ": ", task.title>>
    \o (IF Truthy(task.assigned_agent)
        THEN <<" (assigned to ", task.assigned_agent, ")">> ELSE <<>>)
    \o <<"\n">>

RECURSIVE TaskLines(_)
TaskLines(filtered_tasks) ==
    IF filtered_tasks = <<>> THEN <<>>
    ELSE TaskLine(Head(filtered_tasks)) \o TaskLines(Tail(filtered_tasks))

\* a slip: the heading is written for an empty group too
Group_always(tasks, status_type) ==
    <<"\n", Upper(status_type), " Tasks:\n">> \o TaskLines(Filtered(tasks, status_type))

\* the text one status_type adds: nothing when no task is in it
Group(tasks, status_type) ==
    LET filtered_tasks == Filtered(tasks, status_type)
    IN IF filtered_tasks = <<>> THEN <<>>
       ELSE <<"\n", Upper(status_type), " Tasks:\n">> \o TaskLines(filtered_tasks)

\* a slip: the DONE count is taken over the whole board
get_board_status_total(s) ==
    IF ~Has(s, "tasks") THEN KeyError(s, "tasks")
    ELSE IF ~Has(s, "current_agent") THEN KeyError(s, "current_agent")
    ELSE LET tasks == s["tasks"]
             status == <<"Kanban Board Status: TODO: ", ToString(Count(tasks, TODO)),
                         " tasks IN_PROGRESS: ", ToString(Count(tasks, IN_PROGRESS)),
                         " tasks DONE: ", ToString(Len(tasks)),
                         " tasks Current Agent: ", s["current_agent"]>>
         IN Return(s, status \o Group(tasks, TODO) \o Group(tasks, IN_PROGRESS)
                             \o Group(tasks, DONE))

get_board_status(s) ==
    IF ~Has(s, "tasks") THEN KeyError(s, "tasks")
    ELSE IF ~Has(s, "current_agent") THEN KeyError(s, "current_agent")
    ELSE LET tasks == s["tasks"]
             status == <<"Kanban Board Status: TODO: ", ToString(Count(tasks, TODO)),
                         " tasks IN_PROGRESS: ", ToString(Count(tasks, IN_PROGRESS)),
                         " tasks DONE: ", ToString(Count(tasks, DONE)),
                         " tasks Current Agent: ", s["current_agent"]>>
         IN Return(s, status \o Group(tasks, TODO) \o Group(tasks, IN_PROGRESS)
                             \o Group(tasks, DONE))

\* ---------------------------------------------------------- bootstrap
ZeroStats == [todo |-> 0, in_progress |-> 0, done |-> 0]

\* a slip: the task list is reset whether or not the session holds one
initialize_kanban_state_reset(s) ==
    LET s1 == Put(s, "tasks", <<>>)
        s2 == IF Has(s1, "current_agent") THEN s1 ELSE Put(s1, "current_agent", "orchestrator")
    IN IF Has(s2, "board_stats") THEN s2 ELSE Put(s2, "board_stats", ZeroStats)

initialize_kanban_state(s) ==
    LET s1 == IF Has(s, "tasks") THEN s ELSE Put(s, "tasks", <<>>)
        s2 == IF Has(s1, "current_agent") THEN s1 ELSE Put(s1, "current_agent", "orchestrator")
    IN IF Has(s2, "board_stats") THEN s2 ELSE Put(s2, "board_stats", ZeroStats)

\* ---------------------------------------------------------- the session
\* the user message and the three tasks of initial_state
UserMessage == [role |-> "user", content |-> <<"I need to build a user authentication system.">>]

SampleTasks ==
    <<Task("auth-001", "Research authentication best practices",
           "Research OAuth 2.0, JWT, and session management", TODO, "medium"),
      Task("auth-002", "Implement authentication API",
           "Build REST API endpoints for auth", TODO, "medium"),
      Task("auth-003", "Test authentication flow",
           "Create comprehensive test suite", TODO, "medium")>>

Min(a, b) == IF a <= b THEN a ELSE b

\* the boards a session starts with: the first tasks of initial_state, all TODO
InitialBoards == {SubSeq(SampleTasks, 1, n) : n \in 0..Min(MaxTasks, Len(SampleTasks))}

\* initial_state over a board: orchestrator active, board_stats counting the TODOs
InitialState(board) ==
    [messages |-> <<UserMessage>>,
     tasks |-> board,
     current_agent |-> "orchestrator",
     board_stats |-> [todo |-> Len(board), in_progress |-> 0, done |-> 0]]

\* the arguments the agents pass to the tools
Titles == {"Write spec"}
Descriptions == {"Describe the board"}
Priorities == {"medium"}
TaskIdArgs == {SampleTasks[i].id : i \in 1..Len(SampleTasks)} \cup {"nonexistent"}
ToolCallIds == {"call_1"}
\* values of str(uuid.uuid4())[:8]
HexIds == {"1a2b3c4d", "9f8e7d6c"}

NoCall ==
    [op |-> "none", args |-> <<>>, result |-> <<>>, raised |-> FALSE, command |-> <<>>,
     before |-> ""]

Called(op, args, r) ==
    [op |-> op, args |-> args, result |-> r.result, raised |-> r.raised, command |-> <<>>,
     before |-> ""]

\* the state the task a call is about was in when the call was made, "" if none
Before(s, task_id) ==
    IF Has(s, "tasks") /\ FirstMatch(s["tasks"], task_id) # 0
    THEN s["tasks"][FirstMatch(s["tasks"], task_id)].state
    ELSE ""

CalledOn(op, task_id, r, s) == [Called(op, <<task_id>>, r) EXCEPT !.before = Before(s, task_id)]

\* the role the session names as active, if it names one
ActiveNow(s) == IF Has(s, "current_agent") THEN {s["current_agent"]} ELSE {}

\* active_roles after a step
Seen == active_roles' = active_roles \cup ActiveNow(state')

Init ==
    /\ state \in {InitialState(board) : board \in InitialBoards}
    /\ node = "orchestrator"
    /\ last = NoCall
    /\ created_ids = {}
    /\ active_roles = ActiveNow(state)

\* ---------------------------------------------------------- the tool calls
CreateTask ==
    /\ node \in Nodes
    /\ \E title \in Titles, description \in Descriptions, priority \in Priorities,
          task_id \in HexIds :
          LET r == create_task(state, title, description, priority, task_id)
          IN /\ state' = r.state
             /\ last' = Called("create_task", <<title, description, priority>>, r)
             /\ created_ids' = IF r.raised THEN created_ids ELSE created_ids \cup {task_id}
    /\ Seen
    /\ UNCHANGED node

ClaimTask ==
    /\ node \in Nodes
    /\ \E task_id \in TaskIdArgs :
          LET r == claim_task(state, task_id)
          IN /\ state' = r.state
             /\ last' = CalledOn("claim_task", task_id, r, state)
    /\ Seen
    /\ UNCHANGED <<node, created_ids>>

CompleteTask ==
    /\ node \in Nodes
    /\ \E task_id \in TaskIdArgs :
          LET r == complete_task(state, task_id)
          IN /\ state' = r.state
             /\ last' = CalledOn("complete_task", task_id, r, state)
    /\ Seen
    /\ UNCHANGED <<node, created_ids>>

RenderStatus ==
    /\ node \in Nodes
    /\ LET r == get_board_status(state)
       IN /\ state' = r.state
          /\ last' = Called("get_board_status", <<>>, r)
    /\ Seen
    /\ UNCHANGED <<node, created_ids>>

\* the Command handoff_tool returns, applied by the parent graph: the session
\* becomes its update and the driver goes to its goto
Transfer(agent_name) ==
    /\ Has(state, "messages")
    /\ Len(state["messages"]) < MaxMsgs
    /\ \E tool_call_id \in ToolCallIds :
          LET command == handoff_tool(agent_name, state, tool_call_id)
          IN /\ state' = command.update
             /\ node' = command.goto
             /\ last' = [op |-> "handoff_tool", args |-> <<agent_name, tool_call_id>>,
                         result |-> <<>>, raised |-> FALSE, command |-> <<command>>,
                         before |-> ""]
    /\ Seen
    /\ UNCHANGED created_ids

\* one of the transfer_to_* tools of the executing agent
HandOff ==
    /\ node \in Nodes
    /\ \E agent_name \in HandoffTargets(node) : Transfer(agent_name)

Next == CreateTask \/ ClaimTask \/ CompleteTask \/ RenderStatus \/ HandOff

Spec == Init /\ [][Next]_vars

\* ------------------------------------------- a hand-off tool for any name
\* create_handoff_tool takes any agent_name: here one that is no node of the graph
UnregisteredRole == "unregistered_role"

HandOffUnregistered ==
    /\ node \in Nodes
    /\ Transfer(UnregisteredRole)

NextUnregistered == Next \/ HandOffUnregistered

SpecUnregistered == Init /\ [][NextUnregistered]_vars

\* ------------------------------------------- session bootstrap on its own
\* the states one task of a board can be in
TaskVariants(task) ==
    {task} \cup {[task EXCEPT !.state = st, !.assigned_agent = agent] :
                    st \in {IN_PROGRESS, DONE}, agent \in Nodes}

BootBoards ==
    UNION {{board \in [1..n -> UNION {TaskVariants(SampleTasks[i]) : i \in 1..n}] :
               \A i \in 1..n : board[i] \in TaskVariants(SampleTasks[i])} :
           n \in 0..Min(MaxTasks, Len(SampleTasks))}

BootStats == {ZeroStats, [todo |-> 3, in_progress |-> 0, done |-> 0]}

BootKeys == {"tasks", "current_agent", "board_stats"}

\* sessions holding any subset of the three fields, messages always (MessagesState)
BootSessions ==
    {[k \in keys \cup {"messages"} |->
         CASE k = "messages" -> <<UserMessage>>
           [] k = "tasks" -> board
           [] k = "current_agent" -> agent
           [] k = "board_stats" -> stats] :
     keys \in SUBSET BootKeys, board \in BootBoards, agent \in Nodes, stats \in BootStats}

START == "__start__"

InitBoot ==
    /\ state \in BootSessions
    /\ node = START
    /\ last = NoCall
    /\ created_ids = {}
    /\ active_roles = ActiveNow(state)

Initialize ==
    /\ node = START
    /\ state' = initialize_kanban_state(state)
    /\ last' = [op |-> "initialize_kanban_state", args |-> <<state>>, result |-> <<>>,
                raised |-> FALSE, command |-> <<>>, before |-> ""]
    /\ Seen
    /\ UNCHANGED <<node, created_ids>>

SpecBoot == InitBoot /\ [][Initialize]_vars

\* ------------------------------------------- sessions never bootstrapped
\* the graph starts at the orchestrator on whatever input the caller streams in:
\* initialize_kanban_state is called nowhere, so any of the three fields may be
\* missing when the first tool runs
RawSessions ==
    {[k \in keys \cup {"messages"} |-> InitialState(board)[k]] :
        keys \in SUBSET BootKeys, board \in InitialBoards}

InitRaw ==
    /\ state \in RawSessions
    /\ node = "orchestrator"
    /\ last = NoCall
    /\ created_ids = {}
    /\ active_roles = ActiveNow(state)

SpecRaw == InitRaw /\ [][Next]_vars

\* ------------------------------------------- the router from an empty history
\* the same graph streamed an input without messages, over a board of at most
\* one task: the history bound then leaves room for one more hand-off
RouterBoards == {board \in InitialBoards : Len(board) <= 1}

InitRouter ==
    /\ state \in {[InitialState(board) EXCEPT !.messages = <<>>] : board \in RouterBoards}
    /\ node = "orchestrator"
    /\ last = NoCall
    /\ created_ids = {}
    /\ active_roles = ActiveNow(state)

SpecRouter == InitRouter /\ [][Next]_vars

\* ====================================================================
\* Properties
\* ====================================================================
\* the indices of the board's tasks whose id is task_id
Matches(tasks, task_id) == {i \in 1..Len(tasks) : tasks[i].id = task_id}

\* C1: after a create_task call the board is the previous board with one task
\* appended: the task of the returned id, TODO, unassigned; the rest unchanged.
C1_CreateAppends ==
    [][(last'.op = "create_task" /\ ~last'.raised) =>
          state'["tasks"] =
              Append(state["tasks"],
                     Task(last'.result[4], last'.args[1], last'.args[2], TODO,
                          last'.args[3]))]_vars

\* C2: claim_task of an existing task by the active role moves a TODO task to
\* IN_PROGRESS with that role as assignee, and changes no task when the task is
\* IN_PROGRESS or DONE; no other task changes in either case.
C2_ClaimTask ==
    [][last'.op = "claim_task" =>
          \A i \in Matches(state["tasks"], last'.args[1]) :
             LET t == state["tasks"][i]
                 R == state["current_agent"]
             IN /\ Len(state'["tasks"]) = Len(state["tasks"])
                /\ \A j \in 1..Len(state["tasks"]) :
                      j # i => state'["tasks"][j] = state["tasks"][j]
                /\ IF t.state = TODO
                   THEN state'["tasks"][i] =
                            [t EXCEPT !.state = IN_PROGRESS, !.assigned_agent = R]
                   ELSE state'["tasks"][i] = t]_vars

\* a claim by a role other than the assignee has just been turned down
C2_Witness ==
    /\ last.op = "claim_task"
    /\ Len(last.result) = 4
    /\ last.result[3] = "' is already "
    /\ \E i \in Matches(state["tasks"], last.args[1]) :
          /\ state["tasks"][i].state = IN_PROGRESS
          /\ state["tasks"][i].assigned_agent = "orchestrator"
          /\ state["current_agent"] = "coding_agent"

\* C3: complete_task of an existing task by the active role R sets it DONE and
\* returns the success message iff its assignee is R; otherwise no task changes
\* and the result names the actual assignee.
C3_CompleteTask ==
    [][last'.op = "complete_task" =>
          \A i \in Matches(state["tasks"], last'.args[1]) :
             LET t == state["tasks"][i]
                 R == state["current_agent"]
                 success == <<"Task '", t.title, "' completed!">>
             IN IF t.assigned_agent = R
                THEN /\ state'["tasks"][i] = [t EXCEPT !.state = DONE]
                     /\ last'.result = success
                ELSE /\ state'["tasks"] = state["tasks"]
                     /\ last'.result # success
                     /\ Len(last'.result) = 6
                     /\ last'.result[4] = t.assigned_agent
                     /\ last'.result[6] = R]_vars

\* a completion by a role that is not the assignee has just been turned down
C3_Witness ==
    /\ last.op = "complete_task"
    /\ Len(last.result) = 6
    /\ last.result[4] = "orchestrator"
    /\ last.result[6] = "qa_agent"
    /\ \E i \in Matches(state["tasks"], last.args[1]) :
          /\ state["tasks"][i].state = IN_PROGRESS
          /\ state["tasks"][i].assigned_agent = "orchestrator"

\* C4: a hand-off to T leaves current_agent = T, the previous history with one
\* record "Successfully transferred to T" appended, the task list as it was,
\* and a Command whose goto is T.
C4_HandOff ==
    [][last'.op = "handoff_tool" =>
          LET T == last'.args[1]
              n == Len(state["messages"])
          IN /\ state'["current_agent"] = T
             /\ Len(state'["messages"]) = n + 1
             /\ SubSeq(state'["messages"], 1, n) = state["messages"]
             /\ state'["messages"][n + 1].content = <<"Successfully transferred to ", T>>
             /\ state'["tasks"] = state["tasks"]
             /\ last'.command[1].goto = T
             /\ node' = T]_vars

\* the orchestrator has handed off to the coding agent over a board with a claim
C4_Witness ==
    /\ last.op = "handoff_tool"
    /\ last.args[1] = "coding_agent"
    /\ state["current_agent"] = "coding_agent"
    /\ Len(state["messages"]) = 2
    /\ \E i \in 1..Len(state["tasks"]) : state["tasks"][i].state = IN_PROGRESS

\* C5: a hand-off whose target is no node of the graph yields an UnknownRole
\* failure and leaves current_agent and the history unchanged.
C5_UnknownRoleFails ==
    [][(last'.op = "handoff_tool" /\ last'.args[1] \notin Nodes) =>
          /\ last'.result = <<"UnknownRole", last'.args[1]>>
          /\ state'["current_agent"] = state["current_agent"]
          /\ state'["messages"] = state["messages"]]_vars

\* C6: every identifier create_task returns differs from those it returned
\* before and from the id of every task on the board.
C6_IdsUnique ==
    [][(last'.op = "create_task" /\ ~last'.raised) =>
          /\ last'.result[4] \notin created_ids
          /\ Matches(state["tasks"], last'.result[4]) = {}]_vars

\* C7: a task has an assignee exactly when it is IN_PROGRESS or DONE.
C7_AssignedIffStarted ==
    \A i \in 1..Len(state["tasks"]) :
       (state["tasks"][i].assigned_agent # None)
           <=> (state["tasks"][i].state \in {IN_PROGRESS, DONE})

\* one task is DONE with its assignee while another is still TODO, unassigned
C7_Witness ==
    /\ Len(state["tasks"]) = 2
    /\ state["tasks"][1].state = TODO
    /\ state["tasks"][1].assigned_agent = None
    /\ state["tasks"][2].state = DONE
    /\ state["tasks"][2].assigned_agent = "research_agent"
    /\ last.op = "complete_task"

\* C8: a task only ever moves TODO -> IN_PROGRESS by claim_task and
\* IN_PROGRESS -> DONE by complete_task of its assignee; no task leaves the board.
C8_Lifecycle ==
    [][/\ Len(state'["tasks"]) >= Len(state["tasks"])
       /\ \A i \in 1..Len(state["tasks"]) :
             LET old == state["tasks"][i]
                 new == state'["tasks"][i]
             IN /\ new.id = old.id
                /\ new.state # old.state =>
                      \/ /\ old.state = TODO
                         /\ new.state = IN_PROGRESS
                         /\ last'.op = "claim_task"
                      \/ /\ old.state = IN_PROGRESS
                         /\ new.state = DONE
                         /\ last'.op = "complete_task"
                         /\ old.assigned_agent = state["current_agent"]]_vars

\* a task has gone through the whole lifecycle
C8_Witness ==
    /\ last.op = "complete_task"
    /\ last.result[3] = "' completed!"
    /\ \E i \in Matches(state["tasks"], last.args[1]) :
          /\ state["tasks"][i].state = DONE
          /\ state["tasks"][i].assigned_agent = state["current_agent"]

\* the positions of the hand-off acknowledgments in the history
Acks(messages) == {i \in 1..Len(messages) : messages[i].role = "tool"}

\* C9: the active role and the history never disagree: with no acknowledgment
\* in the history the active role is the initial one, otherwise it is the
\* target the latest acknowledgment names.
C9_HandOffAtomic ==
    LET messages == state["messages"]
        acks == Acks(messages)
    IN IF acks = {}
       THEN state["current_agent"] = "orchestrator"
       ELSE LET k == CHOOSE i \in acks : \A j \in acks : j <= i
            IN messages[k].content =
                   <<"Successfully transferred to ", state["current_agent"]>>

\* a hand-off has been applied: new active role and its record, both
C9_Witness ==
    /\ last.op = "handoff_tool"
    /\ state["current_agent"] = "research_agent"
    /\ Acks(state["messages"]) = {2}

\* C10: initialize_kanban_state is idempotent; it changes nothing on a session
\* holding tasks, current_agent and board_stats; on a session holding none of
\* them it yields no tasks, the orchestrator as active role and zero counters.
C10_BootstrapIdempotent ==
    last.op = "initialize_kanban_state" =>
       LET s == last.args[1]
       IN /\ initialize_kanban_state(state) = state
          /\ (BootKeys \subseteq DOMAIN s) => state = s
          /\ (BootKeys \cap DOMAIN s = {}) =>
                /\ state["tasks"] = <<>>
                /\ state["current_agent"] = "orchestrator"
                /\ state["board_stats"] = [todo |-> 0, in_progress |-> 0, done |-> 0]
          /\ \A k \in DOMAIN s : state[k] = s[k]

\* a session holding only a claimed board has been initialized
C10_Witness ==
    /\ last.op = "initialize_kanban_state"
    /\ DOMAIN last.args[1] = {"messages", "tasks"}
    /\ Len(state["tasks"]) = 2
    /\ state["tasks"][1].state = IN_PROGRESS
    /\ state["current_agent"] = "orchestrator"
    /\ state["board_stats"] = ZeroStats

\* the number of tasks of a board in a state, counted on the board itself
InState(tasks, st) == Cardinality({i \in 1..Len(tasks) : tasks[i].state = st})

\* C11: get_board_status changes nothing of the session; called again on the
\* unchanged session it returns the same text; the three counts it reports are
\* the numbers of TODO, IN_PROGRESS and DONE tasks, which add up to the board.
C11_RenderPure ==
    [][last'.op = "get_board_status" =>
          LET tasks == state["tasks"]
              text == last'.result
          IN /\ state' = state
             /\ UNCHANGED <<node, created_ids, active_roles>>
             /\ text[2] = ToString(InState(tasks, TODO))
             /\ text[4] = ToString(InState(tasks, IN_PROGRESS))
             /\ text[6] = ToString(InState(tasks, DONE))
             /\ InState(tasks, TODO) + InState(tasks, IN_PROGRESS) + InState(tasks, DONE)
                   = Len(tasks)
             /\ last.op = "get_board_status" => text = last.result]_vars

\* the status of a board with one task in each of two states has been rendered
C11_Witness ==
    /\ last.op = "get_board_status"
    /\ Len(state["tasks"]) = 2
    /\ last.result[2] = "0"
    /\ last.result[4] = "1"
    /\ last.result[6] = "1"

\* C12: create_task, claim_task and complete_task return a text and never
\* raise, whatever session the driver dispatches them in.
C12_Total ==
    last.op \in {"create_task", "claim_task", "complete_task"} =>
       ~last.raised /\ last.result # <<>>

\* C13: claim_task and complete_task of an id no task has return the
\* "not found" text and leave the whole session as it was.
C13_NotFound ==
    [][(/\ last'.op \in {"claim_task", "complete_task"}
        /\ Matches(state["tasks"], last'.args[1]) = {}) =>
          /\ last'.result = <<"Task with ID ", last'.args[1], " not found">>
          /\ state' = state
          /\ UNCHANGED <<node, created_ids, active_roles>>]_vars

\* an unknown id has been turned down on a board with work in progress
C13_Witness ==
    /\ last.op = "complete_task"
    /\ last.args = <<"nonexistent">>
    /\ last.result = <<"Task with ID ", "nonexistent", " not found">>
    /\ Len(state["tasks"]) = 2
    /\ state["tasks"][2].state = IN_PROGRESS

\* C14: the assignee of a task is always a role that has been the active role.
C14_AssigneeWasActive ==
    \A i \in 1..Len(state["tasks"]) :
       state["tasks"][i].assigned_agent # None =>
          state["tasks"][i].assigned_agent \in active_roles

\* a task stays assigned to a role that is no longer the active one
C14_Witness ==
    /\ \E i \in 1..Len(state["tasks"]) :
          /\ state["tasks"][i].assigned_agent = "orchestrator"
          /\ state["tasks"][i].state = IN_PROGRESS
    /\ state["current_agent"] = "research_agent"
    /\ active_roles = {"orchestrator", "research_agent"}

\* C15: complete_task by the assignee on a DONE task leaves the board as it is
\* and returns the success text of the first completion; completing again
\* after any completion changes nothing.
C15_CompleteIdempotent ==
    [][last'.op = "complete_task" =>
          \A i \in Matches(state["tasks"], last'.args[1]) :
             LET t == state["tasks"][i]
             IN t.assigned_agent = state["current_agent"] =>
                   /\ complete_task(state', last'.args[1]).state = state'
                   /\ t.state = DONE =>
                         /\ state' = state
                         /\ last'.result = <<"Task '", t.title, "' completed!">>]_vars

\* a DONE task has been completed once more by its assignee
C15_Witness ==
    /\ last.op = "complete_task"
    /\ last.before = DONE
    /\ last.result[3] = "' completed!"
    /\ \E i \in Matches(state["tasks"], last.args[1]) :
          /\ state["tasks"][i].state = DONE
          /\ state["tasks"][i].assigned_agent = state["current_agent"]

\* the heading each state is listed under
Heading(st) ==
    CASE st = TODO -> "TODO" [] st = IN_PROGRESS -> "IN-PROGRESS" [] st = DONE -> "DONE"

\* the place of a state in the listing
Rank(st) == CASE st = TODO -> 1 [] st = IN_PROGRESS -> 2 [] st = DONE -> 3

\* C16: the status text lists every task once, under the heading of its state;
\* headings come in the order TODO, IN-PROGRESS, DONE and only for states that
\* have tasks; tasks under a heading keep board order; an entry names an
\* assignee exactly when the task has one.
C16_RenderListing ==
    (last.op = "get_board_status" /\ ~last.raised) =>
       LET tasks == state["tasks"]
           text == last.result
           Lines == {p \in 1..Len(text) : text[p] = "  - "}
           Heads == {p \in 2..Len(text) : text[p] = " Tasks:\n"}
           LinesOf(i) == {p \in Lines : text[p + 1] = tasks[i].id}
           LineOf(i) == CHOOSE p \in LinesOf(i) : TRUE
           HeadsOf(st) == {h \in Heads : text[h - 1] = Heading(st)}
           Over(p) == {h \in Heads : h < p /\ \A g \in Heads : g < p => g <= h}
       IN /\ Cardinality(Lines) = Len(tasks)
          /\ \A i \in 1..Len(tasks) :
                /\ Cardinality(LinesOf(i)) = 1
                /\ text[LineOf(i) + 2] = ": "
                /\ text[LineOf(i) + 3] = tasks[i].title
                /\ Over(LineOf(i)) # {}
                /\ Over(LineOf(i)) \subseteq HeadsOf(tasks[i].state)
                /\ IF tasks[i].assigned_agent # None
                   THEN /\ text[LineOf(i) + 4] = " (assigned to "
                        /\ text[LineOf(i) + 5] = tasks[i].assigned_agent
                   ELSE text[LineOf(i) + 4] = "\n"
          /\ \A i, j \in 1..Len(tasks) :
                (i < j /\ tasks[i].state = tasks[j].state) => LineOf(i) < LineOf(j)
          /\ Heads = UNION {HeadsOf(st) : st \in TaskState}
          /\ \A st \in TaskState :
                Cardinality(HeadsOf(st)) = IF InState(tasks, st) > 0 THEN 1 ELSE 0
          /\ \A st1, st2 \in TaskState : \A h1 \in HeadsOf(st1), h2 \in HeadsOf(st2) :
                Rank(st1) < Rank(st2) => h1 < h2

\* a board whose first task is DONE and second TODO has been rendered: the
\* TODO task is listed first, without assignee, the DONE task after it, with one
C16_Witness ==
    /\ last.op = "get_board_status"
    /\ Len(state["tasks"]) = 2
    /\ state["tasks"][1].state = DONE
    /\ state["tasks"][2].state = TODO
    /\ last.result[10] = "TODO"
    /\ last.result[13] = state["tasks"][2].id
    /\ last.result[18] = "DONE"
    /\ last.result[21] = state["tasks"][1].id
    /\ last.result[24] = " (assigned to "

\* C17: current_agent is the node the driver executes, one of the four nodes of
\* the graph, so a claim is attributed to the executing role.
C17_ActiveIsNode ==
    /\ node \in Nodes
    /\ state["current_agent"] = node
    /\ (last.op = "claim_task" /\ last.before = TODO) =>
          \A i \in Matches(state["tasks"], last.args[1]) :
             state["tasks"][i].assigned_agent = node

\* after two hand-offs the driver is back at the orchestrator, which claims
C17_Witness ==
    /\ Len(state["messages"]) = 2
    /\ state["messages"][1].content[2] = "qa_agent"
    /\ node = "orchestrator"
    /\ last.op = "claim_task"
    /\ last.before = TODO

\* C18: an assignee once set never changes, a DONE task stays DONE, and a task
\* becomes DONE only in a step whose active role is its assignee.
C18_AssigneeWriteOnce ==
    [][\A i \in 1..Len(state["tasks"]) :
          LET old == state["tasks"][i]
              new == state'["tasks"][i]
          IN /\ old.assigned_agent # None => new.assigned_agent = old.assigned_agent
             /\ old.state = DONE => new.state = DONE
             /\ (old.state # DONE /\ new.state = DONE) =>
                   /\ old.assigned_agent # None
                   /\ old.assigned_agent = state["current_agent"]
                   /\ last'.op = "complete_task"]_vars

\* another role has tried to claim a task that is DONE for the orchestrator
C18_Witness ==
    /\ last.op = "claim_task"
    /\ last.before = DONE
    /\ state["current_agent"] = "coding_agent"
    /\ \E i \in Matches(state["tasks"], last.args[1]) :
          /\ state["tasks"][i].state = DONE
          /\ state["tasks"][i].assigned_agent = "orchestrator"

\* C19: every role holds a hand-off tool to each of the other three roles and
\* none to itself, and every hand-off changes the active role.
C19_Topology ==
    [][/\ \A r \in Nodes : HandoffTargets(r) = Nodes \ {r}
       /\ last'.op = "handoff_tool" =>
             /\ node' # node
             /\ state'["current_agent"] # state["current_agent"]
             /\ last'.args[1] \in Nodes \ {node}]_vars

\* a role other than the orchestrator has handed off to a third role
C19_Witness ==
    /\ last.op = "handoff_tool"
    /\ Len(state["messages"]) = 2
    /\ state["messages"][1].content[2] = "research_agent"
    /\ node = "coding_agent"
    /\ active_roles = {"orchestrator", "research_agent", "coding_agent"}

\* C20: no tool and no hand-off writes board_stats.
C20_StatsNeverWritten ==
    [][state'["board_stats"] = state["board_stats"]]_vars

\* a task is DONE while board_stats still counts every task as todo
C20_Witness ==
    /\ last.op = "complete_task"
    /\ Len(state["tasks"]) = 2
    /\ state["tasks"][1].state = DONE
    /\ state["tasks"][2].state = IN_PROGRESS
    /\ state["board_stats"] = [todo |-> 2, in_progress |-> 0, done |-> 0]

====
